---- MODULE Spec2Model ----
(***************************************************************************)
(* Model of internal/bytealg: the Rabin-Karp hashes and searches, the      *)
(* critical factorization and the Two-Way search (TwoWayLongNeedle).       *)
(*                                                                         *)
(* Byte sequences are TLA+ sequences of integers 0..255; the Go index i is *)
(* the TLA+ index i+1.  A uint32 is the pair <<hi, lo>> of its 16-bit      *)
(* halves, so that every product and sum wraps modulo 2^32 exactly as the  *)
(* Go arithmetic does.                                                     *)
(***************************************************************************)
EXTENDS Integers, Sequences, FiniteSets

VARIABLES
    op,         \* the function being executed
    s,          \* the haystack
    substr,     \* the pattern (sep of the Rabin-Karp functions)
    pc,         \* position in the function: start, scan, periodic, nonperiodic, done, panic
    result,     \* the returned index (valid when pc = "done")
    h,          \* rolling hash (uint32)
    hashss,     \* hash of the pattern (uint32)
    pow,        \* multiplicative factor (uint32)
    i,          \* loop index of the Rabin-Karp scan loops
    suffix,     \* TwoWayLongNeedle: breakpoint of the critical factorization
    period,     \* TwoWayLongNeedle: period
    shiftTable, \* TwoWayLongNeedle: [0..255 -> Int]
    j,          \* TwoWayLongNeedle: window start
    memory,     \* TwoWayLongNeedle: scan memory of the periodic branch
    reads,      \* number of haystack bytes read by the scan loops so far
    prev,       \* TwoWayLongNeedle: the loop iteration just executed: its kind,
                \* the j and memory it started from, the shift-table value it
                \* read, and the number of iterations executed so far
    path,       \* Clean: the argument
    scan,       \* Clean: the locals path, r, dotdot and the output buffer
    cleaned     \* Clean: the returned string (valid when pc = "done")

vars == <<op, s, substr, pc, result, h, hashss, pow, i,
          suffix, period, shiftTable, j, memory, reads, prev,
          path, scan, cleaned>>

----------------------------------------------------------------------------
(* Bounds of the model. *)

MaxS == 6
MaxP == 4

Alphabet == {97, 98}

SeqsUpTo(n) == UNION {[1..m -> Alphabet] : m \in 0..n}

(* An engineered collision of the 32-bit hash: two distinct 4-byte         *)
(* sequences with the same forward hash, and their reversals, which have   *)
(* the same reverse hash.                                                  *)
CollideA == <<28, 79, 100, 0>>
CollideB == <<0, 0, 0, 7>>

Reverse(q) == [x \in 1..Len(q) |-> q[Len(q) + 1 - x]]

CollisionInputs ==
    { <<CollideB \o CollideA, CollideA>>,
      <<CollideA \o CollideB, CollideA>>,
      <<CollideB \o <<97>>, CollideA>>,
      <<<<97>> \o CollideB, CollideA>>,
      <<Reverse(CollideB) \o Reverse(CollideA), Reverse(CollideA)>>,
      <<Reverse(CollideA) \o Reverse(CollideB), Reverse(CollideA)>>,
      <<<<97>> \o Reverse(CollideB), Reverse(CollideA)>> }

(* Inputs over three letters: the pattern "acba" has period 3 and takes    *)
(* the periodic branch; its shift table holds 2 for "c" and 1 for "b".   *)
ClampInputs ==
    { <<<<98, 99, 98, 97, 97, 97, 99>>, <<97, 99, 98, 97>>>>,
      <<<<98, 99, 98, 97, 97, 97, 98, 97>>, <<97, 99, 98, 97>>>>,
      <<<<98, 99, 98, 97, 99, 98, 97>>, <<97, 99, 98, 97>>>> }

Inputs == (SeqsUpTo(MaxS) \X SeqsUpTo(MaxP)) \cup CollisionInputs \cup ClampInputs

----------------------------------------------------------------------------
(* uint32 arithmetic. *)

B16 == 2^16

U32(n) == <<n \div B16, n % B16>>

\* The full 32-bit product of two 16-bit numbers, as <<hi, lo>>.
Mul16(x, y) ==
    LET t1 == (x % 256) * y
        t2 == (x \div 256) * y
        lo == t1 + (t2 % 256) * 256
    IN  <<((t2 \div 256) + (lo \div B16)) % B16, lo % B16>>

Mul32(a, b) ==
    LET ll == Mul16(a[2], b[2])
        hl == Mul16(a[1], b[2])
        lh == Mul16(a[2], b[1])
    IN  <<(ll[1] + hl[2] + lh[2]) % B16, ll[2]>>

Add32(a, b) ==
    LET lo == a[2] + b[2]
    IN  <<(a[1] + b[1] + (lo \div B16)) % B16, lo % B16>>

Sub32(a, b) ==
    LET lo == a[2] - b[2]
        borrow == IF lo < 0 THEN 1 ELSE 0
    IN  <<(a[1] - b[1] - borrow + 2 * B16) % B16, (lo + B16) % B16>>

PrimeRK == 16777619

----------------------------------------------------------------------------
(* HashStr and HashStrRev. *)

RECURSIVE HashLoop(_, _, _)
\* for i := 0; i < len(sep); i++ { hash = hash*PrimeRK + uint32(sep[i]) }
HashLoop(sep, k, hash) ==
    IF k < Len(sep)
    THEN HashLoop(sep, k + 1, Add32(Mul32(hash, U32(PrimeRK)), U32(sep[k + 1])))
    ELSE hash

HashLoopRevForward(sep, k, hash) == HashLoop(sep, 0, hash)

RECURSIVE HashLoopRev(_, _, _)
\* for i := len(sep) - 1; i >= 0; i-- { hash = hash*PrimeRK + uint32(sep[i]) }
HashLoopRev(sep, k, hash) ==
    IF k >= 0
    THEN HashLoopRev(sep, k - 1, Add32(Mul32(hash, U32(PrimeRK)), U32(sep[k + 1])))
    ELSE hash

RECURSIVE PowLoopSquareFirst(_, _, _)
PowLoopSquareFirst(k, pw, sq) ==
    IF k > 0
    THEN PowLoopSquareFirst(k \div 2,
                            IF k % 2 # 0 THEN Mul32(pw, Mul32(sq, sq)) ELSE pw,
                            Mul32(sq, sq))
    ELSE pw

RECURSIVE PowLoop(_, _, _)
\* for i := len(sep); i > 0; i >>= 1 { if i&1 != 0 { pow *= sq }; sq *= sq }
PowLoop(k, pw, sq) ==
    IF k > 0
    THEN PowLoop(k \div 2, IF k % 2 # 0 THEN Mul32(pw, sq) ELSE pw, Mul32(sq, sq))
    ELSE pw

HashStr(sep) == <<HashLoop(sep, 0, U32(0)), PowLoop(Len(sep), U32(1), U32(PrimeRK))>>

HashStrRevForward(sep) ==
    <<HashLoop(sep, 0, U32(0)), PowLoop(Len(sep), U32(1), U32(PrimeRK))>>

HashStrRev(sep) ==
    <<HashLoopRev(sep, Len(sep) - 1, U32(0)), PowLoop(Len(sep), U32(1), U32(PrimeRK))>>

----------------------------------------------------------------------------
(* Go slices and the states of a call. *)

\* s[a:b]
Slice(q, a, b) == SubSeq(q, a + 1, b)

InRange(q, k) == 0 <= k /\ k < Len(q)

\* the bounds check of s[a:b]
SliceInRange(q, a, b) == 0 <= a /\ a <= b /\ b <= Len(q)

\* the value of result before a call returns: no index and not -1
NoResult == 0 - 2

\* no loop iteration of TwoWayLongNeedle has been executed yet
NoStep == [kind |-> "none", j |-> 0, memory |-> 0, shift |-> NoResult, count |-> 0]

CleanVars == <<path, scan, cleaned>>

\* Clean has not set its locals yet
NoScan == [path |-> <<>>, r |-> 0, dotdot |-> 0, out |-> <<>>]

Ops == {"IndexRabinKarp", "LastIndexRabinKarp", "TwoWayLongNeedle"}

Init ==
    /\ op \in Ops
    /\ \E in \in Inputs : s = in[1] /\ substr = in[2]
    /\ op = "TwoWayLongNeedle" => Len(substr) >= 1
    /\ pc = "start"
    /\ result = NoResult
    /\ h = U32(0)
    /\ hashss = U32(0)
    /\ pow = U32(0)
    /\ i = 0
    /\ suffix = 0
    /\ period = 0
    /\ shiftTable = [b \in 0..255 |-> 0]
    /\ j = 0
    /\ memory = 0
    /\ reads = 0
    /\ prev = NoStep
    /\ path = <<>>
    /\ scan = NoScan
    /\ cleaned = <<>>

TwoWayVars == <<suffix, period, shiftTable, j, memory, reads, prev>>
RabinKarpVars == <<h, hashss, pow, i>>

----------------------------------------------------------------------------
(* IndexRabinKarp. *)

\* h == hashss && string(window) == string(sep)
IsMatchHashOnly(hh, hs, window, sep) == hh = hs

IsMatch(hh, hs, window, sep) == hh = hs /\ window = sep

RollRemoveFirst(hh, pw, in, out) ==
    Add32(Mul32(Sub32(hh, Mul32(pw, U32(out))), U32(PrimeRK)), U32(in))

\* h *= PrimeRK; h += uint32(in); h -= pow * uint32(out)
RollNoRemove(hh, pw, in, out) == Add32(Mul32(hh, U32(PrimeRK)), U32(in))

Roll(hh, pw, in, out) ==
    Sub32(Add32(Mul32(hh, U32(PrimeRK)), U32(in)), Mul32(pw, U32(out)))

RECURSIVE InitialHashUnchecked(_, _, _, _)
InitialHashUnchecked(q, n, k, hh) ==
    IF k < n
    THEN InitialHashUnchecked(q, n, k + 1,
             Add32(Mul32(hh, U32(PrimeRK)), U32(IF InRange(q, k) THEN q[k + 1] ELSE 0)))
    ELSE <<TRUE, hh>>

RECURSIVE InitialHash(_, _, _, _)
\* for i := 0; i < n; i++ { h = h*PrimeRK + uint32(s[i]) }
\* <<TRUE, h>>, or <<FALSE, h>> when an index is out of range.
InitialHash(q, n, k, hh) ==
    IF k < n
    THEN IF InRange(q, k)
         THEN InitialHash(q, n, k + 1, Add32(Mul32(hh, U32(PrimeRK)), U32(q[k + 1])))
         ELSE <<FALSE, hh>>
    ELSE <<TRUE, hh>>

IndexRabinKarpStart ==
    /\ op = "IndexRabinKarp" /\ pc = "start"
    /\ LET hp == HashStr(substr)
           n == Len(substr)
           ih == InitialHash(s, n, 0, U32(0))
       IN  /\ hashss' = hp[1]
           /\ pow' = hp[2]
           /\ h' = ih[2]
           /\ IF ~ih[1]
              THEN pc' = "panic" /\ result' = result /\ i' = i
              ELSE IF IsMatch(ih[2], hp[1], Slice(s, 0, n), substr)
                   THEN pc' = "done" /\ result' = 0 /\ i' = i
                   ELSE pc' = "scan" /\ result' = result /\ i' = n
    /\ UNCHANGED <<op, s, substr, CleanVars, TwoWayVars>>

IndexRabinKarpSlide ==
    /\ op = "IndexRabinKarp" /\ pc = "scan"
    /\ i < Len(s)
    /\ LET n == Len(substr)
           i1 == i + 1
       IN  IF ~InRange(s, i) \/ ~InRange(s, i - n) \/ ~SliceInRange(s, i1 - n, i1)
           THEN pc' = "panic" /\ UNCHANGED <<h, i, result>>
           ELSE LET h1 == Roll(h, pow, s[i + 1], s[i - n + 1])
                IN  /\ h' = h1
                    /\ i' = i1
                    /\ IF IsMatch(h1, hashss, Slice(s, i1 - n, i1), substr)
                       THEN pc' = "done" /\ result' = i1 - n
                       ELSE pc' = pc /\ result' = result
    /\ UNCHANGED <<op, s, substr, CleanVars, hashss, pow, TwoWayVars>>

IndexRabinKarpNotFound ==
    /\ op = "IndexRabinKarp" /\ pc = "scan"
    /\ ~(i < Len(s))
    /\ pc' = "done"
    /\ result' = -1
    /\ UNCHANGED <<op, s, substr, CleanVars, RabinKarpVars, TwoWayVars>>

----------------------------------------------------------------------------
(* LastIndexRabinKarp. *)

RECURSIVE InitialHashRev(_, _, _, _)
\* for i := len(s) - 1; i >= last; i-- { h = h*PrimeRK + uint32(s[i]) }
InitialHashRev(q, last, k, hh) ==
    IF k >= last
    THEN IF InRange(q, k)
         THEN InitialHashRev(q, last, k - 1, Add32(Mul32(hh, U32(PrimeRK)), U32(q[k + 1])))
         ELSE <<FALSE, hh>>
    ELSE <<TRUE, hh>>

LastIndexRabinKarpStart ==
    /\ op = "LastIndexRabinKarp" /\ pc = "start"
    /\ LET hp == HashStrRev(substr)
           n == Len(substr)
           last == Len(s) - n
           ih == InitialHashRev(s, last, Len(s) - 1, U32(0))
       IN  /\ hashss' = hp[1]
           /\ pow' = hp[2]
           /\ h' = ih[2]
           /\ IF ~ih[1]
              THEN pc' = "panic" /\ result' = result /\ i' = i
              ELSE IF IsMatch(ih[2], hp[1], Slice(s, last, Len(s)), substr)
                   THEN pc' = "done" /\ result' = last /\ i' = i
                   ELSE pc' = "scan" /\ result' = result /\ i' = last - 1
    /\ UNCHANGED <<op, s, substr, CleanVars, TwoWayVars>>

LastIndexRabinKarpSlide ==
    /\ op = "LastIndexRabinKarp" /\ pc = "scan"
    /\ i >= 0
    /\ LET n == Len(substr)
       IN  IF ~InRange(s, i) \/ ~InRange(s, i + n) \/ ~SliceInRange(s, i, i + n)
           THEN pc' = "panic" /\ UNCHANGED <<h, i, result>>
           ELSE LET h1 == Roll(h, pow, s[i + 1], s[i + n + 1])
                IN  /\ h' = h1
                    /\ IF IsMatch(h1, hashss, Slice(s, i, i + n), substr)
                       THEN pc' = "done" /\ result' = i /\ i' = i
                       ELSE pc' = pc /\ result' = result /\ i' = i - 1
    /\ UNCHANGED <<op, s, substr, CleanVars, hashss, pow, TwoWayVars>>

LastIndexRabinKarpNotFound ==
    /\ op = "LastIndexRabinKarp" /\ pc = "scan"
    /\ ~(i >= 0)
    /\ pc' = "done"
    /\ result' = -1
    /\ UNCHANGED <<op, s, substr, CleanVars, RabinKarpVars, TwoWayVars>>

----------------------------------------------------------------------------
(* criticalFactorization. *)

RECURSIVE MaxSuffix(_, _, _, _, _)
\* The first loop: the maximal suffix under the natural byte order.
\* <<ms, p>> when the loop ends.
MaxSuffix(x, ms, p, jj, k) ==
    IF jj + k < Len(x)
    THEN LET a == x[jj + k + 1]
             b == x[ms + k + 1]
         IN  IF a < b
             THEN MaxSuffix(x, ms, (jj + k) - ms, jj + k, 1)
             ELSE IF a = b
                  THEN IF k # p
                       THEN MaxSuffix(x, ms, p, jj, k + 1)
                       ELSE MaxSuffix(x, ms, p, jj + p, 1)
                  ELSE MaxSuffix(x, jj, 1, jj + 1, 1)
    ELSE <<ms, p>>

RECURSIVE MaxSuffixRevKeepPeriod(_, _, _, _, _)
MaxSuffixRevKeepPeriod(x, msr, p, jj, k) ==
    IF jj + k < Len(x)
    THEN LET a == x[jj + k + 1]
             b == x[msr + k + 1]
         IN  IF a > b
             THEN MaxSuffixRevKeepPeriod(x, msr, (jj + k) - msr, jj + k, 1)
             ELSE IF a = b
                  THEN IF k # p
                       THEN MaxSuffixRevKeepPeriod(x, msr, p, jj, k + 1)
                       ELSE MaxSuffixRevKeepPeriod(x, msr, p, jj + p, 1)
                  ELSE MaxSuffixRevKeepPeriod(x, jj, p, jj + 1, 1)
    ELSE <<msr, p>>

RECURSIVE MaxSuffixRev(_, _, _, _, _)
\* The second loop: the maximal suffix under the reversed byte order.
MaxSuffixRev(x, msr, p, jj, k) ==
    IF jj + k < Len(x)
    THEN LET a == x[jj + k + 1]
             b == x[msr + k + 1]
         IN  IF a > b
             THEN MaxSuffixRev(x, msr, (jj + k) - msr, jj + k, 1)
             ELSE IF a = b
                  THEN IF k # p
                       THEN MaxSuffixRev(x, msr, p, jj, k + 1)
                       ELSE MaxSuffixRev(x, msr, p, jj + p, 1)
                  ELSE MaxSuffixRev(x, jj, 1, jj + 1, 1)
    ELSE <<msr, p>>

criticalFactorizationForwardOnly(x) ==
    LET f == MaxSuffix(x, -1, 1, 0, 1)
    IN  <<f[1] + 1, f[2]>>

criticalFactorizationOtherPeriod(x) ==
    LET f == MaxSuffix(x, -1, 1, 0, 1)
        r == MaxSuffixRev(x, -1, 1, 0, 1)
    IN  IF r[1] < f[1] THEN <<f[1] + 1, r[2]>> ELSE <<r[1] + 1, f[2]>>

criticalFactorizationSmaller(x) ==
    LET f == MaxSuffix(x, -1, 1, 0, 1)
        r == MaxSuffixRev(x, -1, 1, 0, 1)
    IN  IF r[1] < f[1] THEN <<r[1] + 1, r[2]>> ELSE <<f[1] + 1, f[2]>>

criticalFactorizationNoIncrement(x) ==
    LET f == MaxSuffix(x, -1, 1, 0, 1)
        r == MaxSuffixRev(x, -1, 1, 0, 1)
    IN  IF r[1] < f[1] THEN <<f[1], f[2]>> ELSE <<r[1], r[2]>>

\* <<maxSuffix, period>>
criticalFactorization(x) ==
    LET f == MaxSuffix(x, -1, 1, 0, 1)
        r == MaxSuffixRev(x, -1, 1, 0, 1)
    IN  IF r[1] < f[1] THEN <<f[1] + 1, f[2]>> ELSE <<r[1] + 1, r[2]>>

----------------------------------------------------------------------------
(* TwoWayLongNeedle. *)

Max(a, b) == IF a > b THEN a ELSE b

RECURSIVE ShiftLoop(_, _, _)
\* for i := 0; i < len(substr); i++ { shiftTable[substr[i]] = len(substr) - i - 1 }
ShiftLoop(sub, k, tab) ==
    IF k < Len(sub)
    THEN ShiftLoop(sub, k + 1, [tab EXCEPT ![sub[k + 1]] = Len(sub) - k - 1])
    ELSE tab

BuildShiftTableZeroDefault(sub) == ShiftLoop(sub, 0, [b \in 0..255 |-> 0])

BuildShiftTable(sub) == ShiftLoop(sub, 0, [b \in 0..255 |-> Len(sub)])

\* suffix, period := criticalFactorization(substr), then the shift table.
TwoWayFactorize ==
    /\ op = "TwoWayLongNeedle" /\ pc = "start"
    /\ LET cf == criticalFactorization(substr)
       IN  suffix' = cf[1] /\ period' = cf[2]
    /\ shiftTable' = BuildShiftTable(substr)
    /\ pc' = "built"
    /\ UNCHANGED <<op, s, substr, CleanVars, result, RabinKarpVars, j, memory, reads, prev>>

\* The bounds of the two slices of the periodicity test (for a string;
\* a []byte whose capacity is its length behaves the same).
SlicesInRange(sub, suf, per) ==
    SliceInRange(sub, 0, suf) /\ SliceInRange(sub, per, per + suf)

IsPeriodicAlways(sub, suf, per) == TRUE

IsPeriodicInverted(sub, suf, per) == Slice(sub, 0, suf) # Slice(sub, per, per + suf)

\* string(substr[:suffix]) == string(substr[period:period+suffix])
IsPeriodic(sub, suf, per) == Slice(sub, 0, suf) = Slice(sub, per, per + suf)

NonPeriodicPeriodNoPlusOne(sub, suf) == Max(suf, Len(sub) - suf)

\* period = max(suffix, len(substr)-suffix) + 1
NonPeriodicPeriod(sub, suf) == Max(suf, Len(sub) - suf) + 1

TwoWayBranch ==
    /\ op = "TwoWayLongNeedle" /\ pc = "built"
    /\ IF ~SlicesInRange(substr, suffix, period)
       THEN pc' = "panic" /\ period' = period
       ELSE IF IsPeriodic(substr, suffix, period)
            THEN pc' = "periodic" /\ period' = period
            ELSE pc' = "nonperiodic" /\ period' = NonPeriodicPeriod(substr, suffix)
    /\ j' = 0
    /\ memory' = 0
    /\ UNCHANGED <<op, s, substr, CleanVars, result, RabinKarpVars, suffix, shiftTable, reads, prev>>

RECURSIVE ScanRight(_, _, _, _, _)
\* for ; i < len(substr)-1 && substr[i] == s[i+j]; i++ {}
\* cnt counts the haystack bytes read; ok is FALSE on an out-of-range index.
ScanRight(q, sub, jj, k, cnt) ==
    IF k < Len(sub) - 1
    THEN IF ~InRange(sub, k) \/ ~InRange(q, k + jj)
         THEN [i |-> k, reads |-> cnt, ok |-> FALSE]
         ELSE IF sub[k + 1] = q[k + jj + 1]
              THEN ScanRight(q, sub, jj, k + 1, cnt + 1)
              ELSE [i |-> k, reads |-> cnt + 1, ok |-> TRUE]
    ELSE [i |-> k, reads |-> cnt, ok |-> TRUE]

RECURSIVE ScanLeftMemory(_, _, _, _, _, _)
\* for memory < i+1 && substr[i] == s[o] { i--; o-- }
ScanLeftMemory(q, sub, mem, k, o, cnt) ==
    IF mem < k + 1
    THEN IF ~InRange(sub, k) \/ ~InRange(q, o)
         THEN [i |-> k, reads |-> cnt, ok |-> FALSE]
         ELSE IF sub[k + 1] = q[o + 1]
              THEN ScanLeftMemory(q, sub, mem, k - 1, o - 1, cnt + 1)
              ELSE [i |-> k, reads |-> cnt + 1, ok |-> TRUE]
    ELSE [i |-> k, reads |-> cnt, ok |-> TRUE]

RECURSIVE ScanLeft(_, _, _, _, _)
\* for ; i >= 0 && substr[i] == s[i+j]; i-- {}
ScanLeft(q, sub, jj, k, cnt) ==
    IF k >= 0
    THEN IF ~InRange(sub, k) \/ ~InRange(q, k + jj)
         THEN [i |-> k, reads |-> cnt, ok |-> FALSE]
         ELSE IF sub[k + 1] = q[k + jj + 1]
              THEN ScanLeft(q, sub, jj, k - 1, cnt + 1)
              ELSE [i |-> k, reads |-> cnt + 1, ok |-> TRUE]
    ELSE [i |-> k, reads |-> cnt, ok |-> TRUE]

ClampShiftNone(shift, mem, per, n) == shift

\* if memory != 0 && shift < period { shift = len(substr) - period }
ClampShift(shift, mem, per, n) ==
    IF mem # 0 /\ shift < per THEN n - per ELSE shift

RightAdvanceZero(k, suf) == k - suf

RightAdvancePlusOne(k, suf) == k - suf + 2

\* The advance after a mismatch in the right half: j += i - suffix + 1
RightAdvance(k, suf) == k - suf + 1

LeftAdvancePlusOne(per) == per + 1

LeftAdvanceOne(per) == 1

\* The advance after a mismatch in the left half: j += period
LeftAdvance(per) == per

LeftMemoryPlusOne(n, per) == n - per + 1

LeftMemoryWhole(n, per) == n

LeftMemoryPeriod(n, per) == per

\* The memory after a mismatch in the left half: memory = len(substr) - period
LeftMemory(n, per) == n - per

Outcome(kind, jj, mem, cnt) == [kind |-> kind, j |-> jj, memory |-> mem, reads |-> cnt]

\* One iteration of the loop of the periodic branch, from window start jj
\* with memory mem: what happened, the new j and memory, the bytes read.
PeriodicIter(q, sub, tab, suf, per, jj, mem) ==
    LET n == Len(sub)
    IN  IF ~InRange(q, jj + n - 1)
        THEN Outcome("panic", jj, mem, 0)
        ELSE LET shift == tab[q[jj + n]]
             IN  IF 0 < shift
                 THEN Outcome("shift", jj + ClampShift(shift, mem, per, n), 0, 1)
                 ELSE LET r == ScanRight(q, sub, jj, Max(suf, mem), 1)
                      IN  IF ~r.ok
                          THEN Outcome("panic", jj, mem, r.reads)
                          ELSE IF n - 1 <= r.i
                               THEN LET l == ScanLeftMemory(q, sub, mem, suf - 1,
                                                            suf - 1 + jj, r.reads)
                                    IN  IF ~l.ok
                                        THEN Outcome("panic", jj, mem, l.reads)
                                        ELSE IF l.i < mem
                                             THEN Outcome("match", jj, mem, l.reads)
                                             ELSE Outcome("left", jj + LeftAdvance(per),
                                                          LeftMemory(n, per), l.reads)
                               ELSE Outcome("right", jj + RightAdvance(r.i, suf), 0, r.reads)

\* One iteration of the loop of the non-periodic branch.
NonPeriodicIter(q, sub, tab, suf, per, jj) ==
    LET n == Len(sub)
    IN  IF ~InRange(q, jj + n - 1)
        THEN Outcome("panic", jj, 0, 0)
        ELSE LET shift == tab[q[jj + n]]
             IN  IF 0 < shift
                 THEN Outcome("shift", jj + shift, 0, 1)
                 ELSE LET r == ScanRight(q, sub, jj, suf, 1)
                      IN  IF ~r.ok
                          THEN Outcome("panic", jj, 0, r.reads)
                          ELSE IF r.i >= n - 1
                               THEN LET l == ScanLeft(q, sub, jj, suf - 1, r.reads)
                                    IN  IF ~l.ok
                                        THEN Outcome("panic", jj, 0, l.reads)
                                        ELSE IF l.i < 0
                                             THEN Outcome("match", jj, 0, l.reads)
                                             ELSE Outcome("left", jj + LeftAdvance(per),
                                                          0, l.reads)
                               ELSE Outcome("right", jj + RightAdvance(r.i, suf), 0, r.reads)

InLoopUnsigned(q, sub, jj) ==
    jj <= (IF Len(q) >= Len(sub) THEN Len(q) - Len(sub) ELSE Len(sub) - Len(q))

InLoopOffByOne(q, sub, jj) == jj <= Len(q) - Len(sub) + 1

\* for j := 0; j <= len(s)-len(substr); { ... }
InLoop(q, sub, jj) == jj <= Len(q) - Len(sub)

ApplyOutcome(it) ==
    /\ reads' = reads + it.reads
    /\ prev' = [kind |-> it.kind, j |-> j, memory |-> memory,
                shift |-> IF InRange(s, j + Len(substr) - 1)
                          THEN shiftTable[s[j + Len(substr)]] ELSE NoResult,
                count |-> prev.count + 1]
    /\ j' = it.j
    /\ memory' = it.memory
    /\ pc' = CASE it.kind = "panic" -> "panic"
               [] it.kind = "match" -> "done"
               [] OTHER -> pc
    /\ result' = IF it.kind = "match" THEN it.j ELSE result

PeriodicIteration ==
    /\ op = "TwoWayLongNeedle" /\ pc = "periodic"
    /\ InLoop(s, substr, j)
    /\ ApplyOutcome(PeriodicIter(s, substr, shiftTable, suffix, period, j, memory))
    /\ UNCHANGED <<op, s, substr, CleanVars, RabinKarpVars, suffix, period, shiftTable>>

NonPeriodicIteration ==
    /\ op = "TwoWayLongNeedle" /\ pc = "nonperiodic"
    /\ InLoop(s, substr, j)
    /\ ApplyOutcome(NonPeriodicIter(s, substr, shiftTable, suffix, period, j))
    /\ UNCHANGED <<op, s, substr, CleanVars, RabinKarpVars, suffix, period, shiftTable>>

\* return -1
TwoWayNotFound ==
    /\ op = "TwoWayLongNeedle" /\ pc \in {"periodic", "nonperiodic"}
    /\ ~InLoop(s, substr, j)
    /\ pc' = "done"
    /\ result' = -1
    /\ UNCHANGED <<op, s, substr, CleanVars, RabinKarpVars, TwoWayVars>>

----------------------------------------------------------------------------
Next ==
    \/ IndexRabinKarpStart
    \/ IndexRabinKarpSlide
    \/ IndexRabinKarpNotFound
    \/ LastIndexRabinKarpStart
    \/ LastIndexRabinKarpSlide
    \/ LastIndexRabinKarpNotFound
    \/ TwoWayFactorize
    \/ TwoWayBranch
    \/ PeriodicIteration
    \/ NonPeriodicIteration
    \/ TwoWayNotFound

Spec == Init /\ [][Next]_vars

(* TwoWayLongNeedle alone, on longer haystacks. *)
MaxReadS == 7

InitTwoWay ==
    /\ op = "TwoWayLongNeedle"
    /\ s \in SeqsUpTo(MaxReadS)
    /\ substr \in SeqsUpTo(MaxP)
    /\ Len(substr) >= 1
    /\ pc = "start"
    /\ result = NoResult
    /\ h = U32(0)
    /\ hashss = U32(0)
    /\ pow = U32(0)
    /\ i = 0
    /\ suffix = 0
    /\ period = 0
    /\ shiftTable = [b \in 0..255 |-> 0]
    /\ j = 0
    /\ memory = 0
    /\ reads = 0
    /\ prev = NoStep
    /\ path = <<>>
    /\ scan = NoScan
    /\ cleaned = <<>>

NextTwoWay ==
    \/ TwoWayFactorize
    \/ TwoWayBranch
    \/ PeriodicIteration
    \/ NonPeriodicIteration
    \/ TwoWayNotFound

SpecTwoWay == InitTwoWay /\ [][NextTwoWay]_vars

----------------------------------------------------------------------------
(* package path: the two implementations of Clean. *)

MaxPath == 5

Slash == 47

Dot == 46

PathAlphabet == {Slash, Dot, 97}

Paths == UNION {[1..m -> PathAlphabet] : m \in 0..MaxPath}

CleanOps == {"Clean", "LazyClean"}

\* for path != "" && path[0] == '/' { path = path[1:] }
RECURSIVE StripLeadingSlashes(_)
StripLeadingSlashes(p) ==
    IF p # <<>> /\ p[1] = Slash THEN StripLeadingSlashes(Tail(p)) ELSE p

\* for len(path) >= 2 && path[:2] == "./" { path = path[2:]; ... }
RECURSIVE StripLeadingDotSlash(_)
StripLeadingDotSlash(p) ==
    IF Len(p) >= 2 /\ p[1] = Dot /\ p[2] = Slash
    THEN StripLeadingDotSlash(StripLeadingSlashes(Slice(p, 2, Len(p))))
    ELSE p

\* if len(path) >= 2 && path[:2] == "./" { path = path[2:]; ... }
StripLeadingDotSlashOnce(p) ==
    IF Len(p) >= 2 /\ p[1] = Dot /\ p[2] = Slash
    THEN StripLeadingSlashes(Slice(p, 2, Len(p)))
    ELSE p

\* for i > 0 && s[i] == '/' { i-- }
RECURSIVE TrimLoop(_, _)
TrimLoop(p, k) ==
    IF k > 0 /\ p[k + 1] = Slash THEN TrimLoop(p, k - 1) ELSE k

trimTrailingSlashes(p) == Slice(p, 0, TrimLoop(p, Len(p) - 1) + 1)

\* for len(path) >= 2 && path[len(path)-2:] == "/." { path = path[:len(path)-2] }
RECURSIVE StripTrailingSlashDot(_)
StripTrailingSlashDot(p) ==
    IF Len(p) >= 2 /\ p[Len(p) - 1] = Slash /\ p[Len(p)] = Dot
    THEN StripTrailingSlashDot(Slice(p, 0, Len(p) - 2))
    ELSE p

\* for ; i > 0 && path[i] != '/'; i-- {}
RECURSIVE BacktrackToSlash(_, _)
BacktrackToSlash(p, k) ==
    IF k > 0 /\ p[k + 1] # Slash THEN BacktrackToSlash(p, k - 1) ELSE k

RECURSIVE cleanIndexLoop(_, _)
cleanIndexLoop(p, k) ==
    IF k < Len(p) - 1
    THEN IF p[k + 1] = Slash /\ p[k + 2] = Slash
         THEN k
         ELSE IF p[k + 1] = Dot /\ (p[k + 2] = Dot \/ p[k + 2] = Slash)
              THEN BacktrackToSlash(p, IF k > 0 THEN k - 1 ELSE k)
              ELSE cleanIndexLoop(p, k + 1)
    ELSE -1

cleanIndex(p) == cleanIndexLoop(p, 0)

\* for i > dotdot && buf[i] != '/' { i-- }
RECURSIVE BufBacktrack(_, _, _)
BufBacktrack(buf, k, dd) ==
    IF k > dd /\ buf[k + 1] # Slash THEN BufBacktrack(buf, k - 1, dd) ELSE k

\* the index of the first '/' of p at or after k, len(p) when there is none
RECURSIVE ElementEnd(_, _)
ElementEnd(p, k) ==
    IF k < Len(p) /\ p[k + 1] # Slash THEN ElementEnd(p, k + 1) ELSE k

\* if rooted && len(buf) != 1 || !rooted && len(buf) != 0
NeedsSlash(rooted, w) == (rooted /\ w # 1) \/ (~rooted /\ w # 0)

\* the dirty loop of the cleanIndex version: for r < n { switch ... }
RECURSIVE DirtyLoop(_, _, _, _, _)
DirtyLoop(p, rooted, rr, buf, dd) ==
    LET n == Len(p)
    IN  IF rr < n
        THEN IF p[rr + 1] = Slash
             THEN DirtyLoop(p, rooted, rr + 1, buf, dd)
             ELSE IF p[rr + 1] = Dot /\ (rr + 1 = n \/ p[rr + 2] = Slash)
             THEN DirtyLoop(p, rooted, rr + 1, buf, dd)
             ELSE IF p[rr + 1] = Dot /\ p[rr + 2] = Dot
                     /\ (rr + 2 = n \/ p[rr + 3] = Slash)
             THEN IF Len(buf) > dd
                  THEN DirtyLoop(p, rooted, rr + 2,
                                 Slice(buf, 0, BufBacktrack(buf, Len(buf) - 1, dd)), dd)
                  ELSE IF ~rooted
                       THEN LET b2 == (IF Len(buf) > 0 THEN Append(buf, Slash)
                                       ELSE buf) \o <<Dot, Dot>>
                            IN  DirtyLoop(p, rooted, rr + 2, b2, Len(b2))
                       ELSE DirtyLoop(p, rooted, rr + 2, buf, dd)
             ELSE LET b1 == IF NeedsSlash(rooted, Len(buf)) THEN Append(buf, Slash)
                            ELSE buf
                      e == ElementEnd(p, rr)
                  IN  DirtyLoop(p, rooted, e, b1 \o Slice(p, rr, e), dd)
        ELSE buf

\* Clean (cleanIndex version): the leading "./" and the trailing slashes and
\* "/." are removed; an empty path returns ".".
CleanStrip ==
    /\ op = "Clean" /\ pc = "start"
    /\ LET p == trimTrailingSlashes(StripTrailingSlashDot(
                    trimTrailingSlashes(StripLeadingDotSlash(path))))
       IN  IF p = <<>>
           THEN pc' = "done" /\ cleaned' = <<Dot>> /\ scan' = scan
           ELSE /\ pc' = "stripped"
                /\ scan' = [scan EXCEPT !.path = p]
                /\ cleaned' = cleaned
    /\ UNCHANGED <<op, s, substr, result, RabinKarpVars, TwoWayVars, path>>

\* r := cleanIndex(path); a path with no dirty element is returned as it is,
\* otherwise buf = path[:r]
CleanFindDirty ==
    /\ op = "Clean" /\ pc = "stripped"
    /\ LET p == scan.path
           k == cleanIndex(p)
           rooted == p[1] = Slash
           rr == IF rooted /\ k = 0 THEN 1 ELSE k
       IN  IF k = -1
           THEN pc' = "done" /\ cleaned' = p /\ scan' = scan
           ELSE /\ pc' = "dirty"
                /\ scan' = [scan EXCEPT !.r = rr,
                                        !.dotdot = IF rooted THEN 1 ELSE 0,
                                        !.out = Slice(p, 0, rr)]
                /\ cleaned' = cleaned
    /\ UNCHANGED <<op, s, substr, result, RabinKarpVars, TwoWayVars, path>>

\* the dirty loop and the return; path[:len(buf)] is out of range when buf
\* is longer than path
CleanDirty ==
    /\ op = "Clean" /\ pc = "dirty"
    /\ LET p == scan.path
           buf == DirtyLoop(p, p[1] = Slash, scan.r, scan.out, scan.dotdot)
       IN  /\ scan' = [scan EXCEPT !.r = Len(p), !.out = buf]
           /\ IF Len(buf) = 0
              THEN pc' = "done" /\ cleaned' = <<Dot>>
              ELSE IF Len(buf) > Len(p)
                   THEN pc' = "panic" /\ cleaned' = cleaned
                   ELSE pc' = "done" /\ cleaned' = buf
    /\ UNCHANGED <<op, s, substr, result, RabinKarpVars, TwoWayVars, path>>

\* lazybuf{s: path}: buf is nil (alloc = FALSE) until the output diverges
lazybuf(p) == [s |-> p, buf |-> <<>>, w |-> 0, alloc |-> FALSE, fault |-> FALSE]

\* func (b *lazybuf) index(i int) byte
LazyIndex(b, k) == IF b.alloc THEN b.buf[k + 1] ELSE b.s[k + 1]

\* func (b *lazybuf) append(c byte); b.buf[b.w] is out of range when
\* b.w >= len(b.s)
LazyAppend(b, c) ==
    IF ~b.alloc /\ b.w < Len(b.s) /\ b.s[b.w + 1] = c
    THEN [b EXCEPT !.w = b.w + 1]
    ELSE LET base == IF b.alloc THEN b.buf
                     ELSE [k \in 1..Len(b.s) |-> IF k <= b.w THEN b.s[k] ELSE 0]
         IN  IF b.w >= Len(b.s)
             THEN [b EXCEPT !.alloc = TRUE, !.buf = base, !.fault = TRUE]
             ELSE [b EXCEPT !.alloc = TRUE,
                            !.buf = [base EXCEPT ![b.w + 1] = c],
                            !.w = b.w + 1]

\* func (b *lazybuf) string() string
LazyString(b) == IF b.alloc THEN Slice(b.buf, 0, b.w) ELSE Slice(b.s, 0, b.w)

\* the fast path loop: whether a "//", "/." or "./" was found (goto Dirty),
\* and whether r and out.w are moved to it ("//" or "/." at an index i != 0)
RECURSIVE FastPathLoop(_, _)
FastPathLoop(p, k) ==
    IF k < Len(p) - 1
    THEN IF p[k + 1] = Slash /\ (p[k + 2] = Slash \/ p[k + 2] = Dot)
         THEN [dirty |-> TRUE, reset |-> k # 0, at |-> k]
         ELSE IF p[k + 1] = Dot /\ p[k + 2] = Slash
              THEN [dirty |-> TRUE, reset |-> FALSE, at |-> k]
              ELSE FastPathLoop(p, k + 1)
    ELSE [dirty |-> FALSE, reset |-> FALSE, at |-> k]

\* for out.w > dotdot && out.index(out.w) != '/' { out.w-- }
RECURSIVE LazyBacktrack(_, _, _)
LazyBacktrack(b, k, dd) ==
    IF k > dd /\ LazyIndex(b, k) # Slash THEN LazyBacktrack(b, k - 1, dd) ELSE k

\* for ; r < n && path[r] != '/'; r++ { out.append(path[r]) }
RECURSIVE LazyCopyElement(_, _, _)
LazyCopyElement(p, k, b) ==
    IF k < Len(p) /\ p[k + 1] # Slash /\ ~b.fault
    THEN LazyCopyElement(p, k + 1, LazyAppend(b, p[k + 1]))
    ELSE b

\* the dirty loop of the lazybuf version
RECURSIVE LazyDirtyLoop(_, _, _, _, _)
LazyDirtyLoop(p, rooted, rr, b, dd) ==
    LET n == Len(p)
    IN  IF rr < n /\ ~b.fault
        THEN IF p[rr + 1] = Slash
             THEN LazyDirtyLoop(p, rooted, rr + 1, b, dd)
             ELSE IF p[rr + 1] = Dot /\ (rr + 1 = n \/ p[rr + 2] = Slash)
             THEN LazyDirtyLoop(p, rooted, rr + 1, b, dd)
             ELSE IF p[rr + 1] = Dot /\ p[rr + 2] = Dot
                     /\ (rr + 2 = n \/ p[rr + 3] = Slash)
             THEN IF b.w > dd
                  THEN LazyDirtyLoop(p, rooted, rr + 2,
                                     [b EXCEPT !.w = LazyBacktrack(b, b.w - 1, dd)], dd)
                  ELSE IF ~rooted
                       THEN LET b1 == IF b.w > 0 THEN LazyAppend(b, Slash) ELSE b
                                b2 == IF b1.fault THEN b1 ELSE LazyAppend(b1, Dot)
                                b3 == IF b2.fault THEN b2 ELSE LazyAppend(b2, Dot)
                            IN  LazyDirtyLoop(p, rooted, rr + 2, b3, b3.w)
                       ELSE LazyDirtyLoop(p, rooted, rr + 2, b, dd)
             ELSE LET b1 == IF NeedsSlash(rooted, b.w) THEN LazyAppend(b, Slash)
                            ELSE b
                  IN  LazyDirtyLoop(p, rooted, ElementEnd(p, rr),
                                    LazyCopyElement(p, rr, b1), dd)
        ELSE b

\* Clean (lazybuf version): one leading "./" and the trailing slashes are
\* removed; an empty path returns "."; out, r and dotdot are set
LazyCleanStrip ==
    /\ op = "LazyClean" /\ pc = "start"
    /\ LET q == StripLeadingDotSlashOnce(path)
           p == trimTrailingSlashes(q)
           rooted == p[1] = Slash
       IN  IF q = <<>>
           THEN pc' = "done" /\ cleaned' = <<Dot>> /\ scan' = scan
           ELSE /\ pc' = "stripped"
                /\ scan' = [path |-> p,
                            r |-> IF rooted THEN 1 ELSE 0,
                            dotdot |-> IF rooted THEN 1 ELSE 0,
                            out |-> IF rooted THEN LazyAppend(lazybuf(p), Slash)
                                    ELSE lazybuf(p)]
                /\ cleaned' = cleaned
    /\ UNCHANGED <<op, s, substr, result, RabinKarpVars, TwoWayVars, path>>

\* the fast path for clean paths: return path, or goto Dirty with r and
\* out.w moved to the first "//" or "/." when it is not at index 0
LazyCleanFastPath ==
    /\ op = "LazyClean" /\ pc = "stripped"
    /\ LET f == FastPathLoop(scan.path, 0)
       IN  IF ~f.dirty
           THEN pc' = "done" /\ cleaned' = scan.path /\ scan' = scan
           ELSE /\ pc' = "dirty"
                /\ scan' = IF f.reset
                           THEN [scan EXCEPT !.r = f.at, !.out.w = f.at]
                           ELSE scan
                /\ cleaned' = cleaned
    /\ UNCHANGED <<op, s, substr, result, RabinKarpVars, TwoWayVars, path>>

\* the dirty loop and the return
LazyCleanDirty ==
    /\ op = "LazyClean" /\ pc = "dirty"
    /\ LET p == scan.path
           b == LazyDirtyLoop(p, p[1] = Slash, scan.r, scan.out, scan.dotdot)
       IN  /\ scan' = [scan EXCEPT !.r = Len(p), !.out = b]
           /\ IF b.fault
              THEN pc' = "panic" /\ cleaned' = cleaned
              ELSE /\ pc' = "done"
                   /\ cleaned' = IF b.w = 0 THEN <<Dot>> ELSE LazyString(b)
    /\ UNCHANGED <<op, s, substr, result, RabinKarpVars, TwoWayVars, path>>

\* Clean (cleanIndex version) as a function of its argument
CleanOf(arg) ==
    LET p == trimTrailingSlashes(StripTrailingSlashDot(
                 trimTrailingSlashes(StripLeadingDotSlash(arg))))
    IN  IF p = <<>> THEN <<Dot>>
        ELSE LET k == cleanIndex(p)
                 rooted == p[1] = Slash
                 rr == IF rooted /\ k = 0 THEN 1 ELSE k
             IN  IF k = -1 THEN p
                 ELSE LET buf == DirtyLoop(p, rooted, rr, Slice(p, 0, rr),
                                           IF rooted THEN 1 ELSE 0)
                      IN  IF Len(buf) = 0 THEN <<Dot>> ELSE buf

\* Clean (lazybuf version) as a function of its argument
LazyCleanOf(arg) ==
    LET q == StripLeadingDotSlashOnce(arg)
    IN  IF q = <<>> THEN <<Dot>>
        ELSE LET p == trimTrailingSlashes(q)
                 rooted == p[1] = Slash
                 r0 == IF rooted THEN 1 ELSE 0
                 b0 == IF rooted THEN LazyAppend(lazybuf(p), Slash) ELSE lazybuf(p)
                 f == FastPathLoop(p, 0)
             IN  IF ~f.dirty THEN p
                 ELSE LET b == LazyDirtyLoop(p, rooted,
                                             IF f.reset THEN f.at ELSE r0,
                                             IF f.reset THEN [b0 EXCEPT !.w = f.at]
                                             ELSE b0,
                                             r0)
                      IN  IF b.w = 0 THEN <<Dot>> ELSE LazyString(b)

InitClean ==
    /\ op \in CleanOps
    /\ path \in Paths
    /\ scan = NoScan
    /\ cleaned = <<>>
    /\ s = <<>>
    /\ substr = <<>>
    /\ pc = "start"
    /\ result = NoResult
    /\ h = U32(0)
    /\ hashss = U32(0)
    /\ pow = U32(0)
    /\ i = 0
    /\ suffix = 0
    /\ period = 0
    /\ shiftTable = [b \in 0..255 |-> 0]
    /\ j = 0
    /\ memory = 0
    /\ reads = 0
    /\ prev = NoStep

NextClean ==
    \/ CleanStrip
    \/ CleanFindDirty
    \/ CleanDirty
    \/ LazyCleanStrip
    \/ LazyCleanFastPath
    \/ LazyCleanDirty

SpecClean == InitClean /\ [][NextClean]_vars

----------------------------------------------------------------------------
(* Reference definitions the claims are stated with. *)

\* sub occurs in q at index k
Occurs(q, sub, k) ==
    /\ 0 <= k /\ k + Len(sub) <= Len(q)
    /\ \A x \in 1..Len(sub) : q[k + x] = sub[x]

Occurrences(q, sub) == {k \in 0..(Len(q) - Len(sub)) : Occurs(q, sub, k)}

\* the brute-force scans
FirstIndex(q, sub) ==
    IF Occurrences(q, sub) = {} THEN -1
    ELSE CHOOSE k \in Occurrences(q, sub) : \A m \in Occurrences(q, sub) : k <= m

LastIndex(q, sub) ==
    IF Occurrences(q, sub) = {} THEN -1
    ELSE CHOOSE k \in Occurrences(q, sub) : \A m \in Occurrences(q, sub) : k >= m

\* 1 <= len(p) <= len(s)
Precondition == 1 <= Len(substr) /\ Len(substr) <= Len(s)

\* sub is a shorter string repeated at least twice
IsRepetition(sub) ==
    \E d \in 1..(Len(sub) - 1) :
        /\ Len(sub) % d = 0
        /\ \A x \in 1..(Len(sub) - d) : sub[x] = sub[x + d]

\* r is a local period of x at position l
IsLocalPeriod(x, l, r) ==
    \A k \in 0..(Len(x) - 1) :
        (l - r <= k /\ k < l /\ k + r < Len(x)) => x[k + 1] = x[k + r + 1]

LocalPeriod(x, l) ==
    CHOOSE r \in 1..Len(x) :
        /\ IsLocalPeriod(x, l, r)
        /\ \A r2 \in 1..(r - 1) : ~IsLocalPeriod(x, l, r2)

IsPeriod(x, p) == \A k \in 1..(Len(x) - p) : x[k] = x[k + p]

GlobalPeriod(x) ==
    CHOOSE p \in 1..Len(x) : IsPeriod(x, p) /\ \A p2 \in 1..(p - 1) : ~IsPeriod(x, p2)

RECURSIVE PowerRK(_)
\* PrimeRK^k mod 2^32, by k multiplications
PowerRK(k) == IF k = 0 THEN U32(1) ELSE Mul32(PowerRK(k - 1), U32(PrimeRK))

RECURSIVE PolySum(_, _)
\* the sum over k <= idx < len(seq) of seq[idx] * PrimeRK^(len(seq)-1-idx), mod 2^32
PolySum(seq, k) ==
    IF k >= Len(seq) THEN U32(0)
    ELSE Add32(Mul32(U32(seq[k + 1]), PowerRK(Len(seq) - 1 - k)), PolySum(seq, k + 1))

----------------------------------------------------------------------------
(* The claims. *)

\* C1: for 1 <= len(p) <= len(s), TwoWayLongNeedle(s, p) returns the result
\* of the brute-force left-to-right scan: the lowest index at which p occurs
\* in s, or -1 when p does not occur.
C1_TwoWayMatchesBruteForce ==
    (op = "TwoWayLongNeedle" /\ Precondition /\ pc = "done")
        => result = FirstIndex(s, substr)

\* A search for a repeated short string ends at an occurrence that is not at
\* index 0 and is overlapped by a later occurrence.
C1_Witness ==
    /\ op = "TwoWayLongNeedle" /\ Precondition /\ pc = "done"
    /\ IsRepetition(substr)
    /\ result > 0
    /\ \E k \in (result + 1)..(result + Len(substr) - 1) : Occurs(s, substr, k)

\* C2: for 1 <= len(sep) <= len(s), IndexRabinKarp(s, sep) returns the
\* lowest index at which sep occurs in s, or -1 when it does not occur.
C2_IndexRabinKarpLowest ==
    (op = "IndexRabinKarp" /\ Precondition /\ pc = "done")
        => result = FirstIndex(s, substr)

\* The search slid to an occurrence that a later occurrence follows.
C2_Witness ==
    /\ op = "IndexRabinKarp" /\ Precondition /\ pc = "done"
    /\ result > 0
    /\ \E k \in Occurrences(s, substr) : k > result

\* C3: for 1 <= len(sep) <= len(s), LastIndexRabinKarp(s, sep) returns the
\* highest index at which sep occurs in s (the last valid position
\* len(s)-len(sep) included), or -1 when it does not occur.
C3_LastIndexRabinKarpHighest ==
    (op = "LastIndexRabinKarp" /\ Precondition /\ pc = "done")
        => result = LastIndex(s, substr)

\* The search slid left to an occurrence that an earlier occurrence precedes.
C3_Witness ==
    /\ op = "LastIndexRabinKarp" /\ Precondition /\ pc = "done"
    /\ 0 <= result /\ result < Len(s) - Len(substr)
    /\ \E k \in Occurrences(s, substr) : k < result

\* The occurrence at the last valid position is found.
C3_WitnessLastPosition ==
    /\ op = "LastIndexRabinKarp" /\ Precondition /\ pc = "done"
    /\ Len(substr) < Len(s)
    /\ result = Len(s) - Len(substr)

\* C4: any index i >= 0 returned by IndexRabinKarp or LastIndexRabinKarp is
\* the start of a window equal to sep byte for byte, also when a different
\* window of s has the same 32-bit hash as sep.
C4_NoFalseMatch ==
    (op \in {"IndexRabinKarp", "LastIndexRabinKarp"} /\ Precondition
        /\ pc = "done" /\ result >= 0)
        => (SliceInRange(s, result, result + Len(substr))
            /\ Slice(s, result, result + Len(substr)) = substr)

\* The window at index k differs from the pattern and has the pattern's hash.
Collides(k) ==
    /\ SliceInRange(s, k, k + Len(substr))
    /\ Slice(s, k, k + Len(substr)) # substr
    /\ IF op = "IndexRabinKarp"
       THEN HashStr(Slice(s, k, k + Len(substr)))[1] = hashss
       ELSE HashStrRev(Slice(s, k, k + Len(substr)))[1] = hashss

\* A search that passed a colliding window and returned a later match.
C4_Witness ==
    /\ op = "IndexRabinKarp" /\ Precondition /\ pc = "done"
    /\ result > 0
    /\ \E k \in 0..(result - 1) : Collides(k)

\* The reverse search passed a colliding window and returned an earlier match.
C4_WitnessReverse ==
    /\ op = "LastIndexRabinKarp" /\ Precondition /\ pc = "done"
    /\ result >= 0
    /\ \E k \in (result + 1)..(Len(s) - Len(substr)) : Collides(k)

\* C5: the breakpoint returned by criticalFactorization is a critical
\* position of the pattern: the smallest local period there equals the
\* smallest period of the whole pattern.
C5_BreakpointIsCritical ==
    (op = "TwoWayLongNeedle" /\ pc = "built")
        => LocalPeriod(substr, suffix) = GlobalPeriod(substr)

\* A factorization of a pattern that has a period between 1 and its length,
\* with the breakpoint inside the pattern.
C5_Witness ==
    /\ op = "TwoWayLongNeedle" /\ pc = "built"
    /\ suffix >= 2
    /\ 1 < GlobalPeriod(substr) /\ GlobalPeriod(substr) < Len(substr)

\* C6: criticalFactorization returns (breakpoint, period) with
\* 0 <= breakpoint <= len(pattern) and period >= 1.
C6_FactorizationInBounds ==
    (op = "TwoWayLongNeedle" /\ pc = "built")
        => (0 <= suffix /\ suffix <= Len(substr) /\ period >= 1)

C6_Witness ==
    /\ op = "TwoWayLongNeedle" /\ pc = "built"
    /\ suffix > 0 /\ period > 1

\* C7: HashStr(seq) returns the hash sum of seq[i] * PrimeRK^(len-1-i) mod
\* 2^32 and the factor PrimeRK^len mod 2^32.
C7_HashStrIsPolynomial ==
    (op = "IndexRabinKarp" /\ pc # "start")
        => (hashss = PolySum(substr, 0) /\ pow = PowerRK(Len(substr)))

\* The hash of a pattern long enough for the arithmetic to wrap.
C7_Witness ==
    /\ op = "IndexRabinKarp" /\ pc # "start"
    /\ Len(substr) >= 4
    /\ \E x \in 1..Len(substr) : substr[x] # substr[1]

\* C8: HashStrRev(sep) equals HashStr(reverse(sep)) in both components, and
\* the factor is the one HashStr(sep) returns.
C8_HashStrRevIsHashOfReverse ==
    (op = "LastIndexRabinKarp" /\ pc # "start")
        => (/\ <<hashss, pow>> = HashStr(Reverse(substr))
            /\ pow = HashStr(substr)[2])

\* The reverse hash of a pattern that is not a palindrome.
C8_Witness ==
    /\ op = "LastIndexRabinKarp" /\ pc # "start"
    /\ Len(substr) >= 3
    /\ substr # Reverse(substr)

\* C9: the number of haystack bytes TwoWayLongNeedle reads in one search is
\* at most 2 * len(s), whatever the pattern, in both branches.
C9_ReadsLinear ==
    op = "TwoWayLongNeedle" => reads <= 2 * Len(s)

\* A finished search that read some haystack byte more than once.
C9_Witness ==
    /\ op = "TwoWayLongNeedle" /\ pc = "done"
    /\ Len(substr) >= 3
    /\ reads > Len(s)

\* C10: for 1 <= len(p) <= len(s), none of the three searches makes an
\* out-of-range access, and each returns -1 or an index in
\* 0..len(s)-len(p).
C10_NoFaultAndResultInRange ==
    Precondition =>
        /\ pc # "panic"
        /\ pc = "done" => (result = -1 \/ (0 <= result /\ result <= Len(s) - Len(substr)))

\* A search that ended without finding the pattern.
C10_Witness ==
    /\ Precondition /\ pc = "done" /\ result = -1
    /\ op = "TwoWayLongNeedle"
    /\ j > Len(s) - Len(substr)

----------------------------------------------------------------------------
(* Reference definitions for the steps of TwoWayLongNeedle. *)

\* The lowest index from from up to len(sub)-2 at which the window at jj
\* differs from sub; len(sub)-1 when there is none.
FirstRightMismatch(q, sub, jj, from) ==
    LET D == {k \in from..(Len(sub) - 2) : sub[k + 1] # q[jj + k + 1]}
    IN  IF D = {} THEN Len(sub) - 1
        ELSE CHOOSE k \in D : \A m \in D : k <= m

InNonPeriodic == op = "TwoWayLongNeedle" /\ pc = "nonperiodic"

InPeriodic == op = "TwoWayLongNeedle" /\ pc = "periodic"

\* u precedes v in the lexicographic order of the bytes (of the reversed
\* bytes when rev), a proper prefix preceding its extensions
LexLess(u, v, rev) ==
    \/ Len(u) < Len(v) /\ \A x \in 1..Len(u) : u[x] = v[x]
    \/ \E k \in 1..Len(u) :
        /\ k <= Len(v)
        /\ \A x \in 1..(k - 1) : u[x] = v[x]
        /\ IF rev THEN u[k] > v[k] ELSE u[k] < v[k]

\* the start index of the maximal suffix of x
MaximalSuffixStart(x, rev) ==
    CHOOSE a \in 0..(Len(x) - 1) :
        \A b \in 0..(Len(x) - 1) :
            b # a => LexLess(Slice(x, b, Len(x)), Slice(x, a, Len(x)), rev)

\* the smallest p >= 1 with x[i] = x[i+p] for all l <= i < len(x)-p
SmallestPeriodFrom(x, l) ==
    CHOOSE p \in 1..Len(x) :
        /\ \A k \in l..(Len(x) - p - 1) : x[k + 1] = x[k + p + 1]
        /\ \A p2 \in 1..(p - 1) :
               \E k \in l..(Len(x) - p2 - 1) : x[k + 1] # x[k + p2 + 1]

\* the index of the last occurrence of byte c in sub, -1 when there is none
LastOccurrence(sub, c) ==
    LET O == {k \in 0..(Len(sub) - 1) : sub[k + 1] = c}
    IN  IF O = {} THEN -1 ELSE CHOOSE k \in O : \A m \in O : k >= m

----------------------------------------------------------------------------
(* The claims about the steps of TwoWayLongNeedle and the factorization. *)

C12_WitnessLeft ==
    /\ InNonPeriodic
    /\ prev.kind = "left" /\ prev.shift = 0
    /\ j - prev.j = period

C13_WitnessRight ==
    /\ InPeriodic
    /\ prev.kind = "right" /\ prev.shift = 0
    /\ memory # Len(substr) - period

\* C14: in the periodic branch, when memory is nonzero and the shift-table
\* value of the byte under the pattern's last position is nonzero, the window
\* start advances by at least len(substr)-period and memory becomes 0.
C14_ShiftUnderMemory ==
    (InPeriodic /\ prev.kind = "shift" /\ prev.memory # 0) =>
        /\ prev.shift > 0
        /\ j - prev.j >= Len(substr) - period
        /\ memory = 0

\* A shift-table value below period read with a nonzero memory, and widened.
C14_Witness ==
    /\ InPeriodic
    /\ prev.kind = "shift" /\ prev.memory # 0
    /\ prev.shift < period
    /\ j - prev.j > prev.shift

\* C15: whenever memory is nonzero and the shift-table value t satisfies
\* 0 < t < period, the shift applied is at least t.
C15_ClampOnlyWidens ==
    (InPeriodic /\ prev.kind = "shift" /\ prev.memory # 0
        /\ 0 < prev.shift /\ prev.shift < period)
        => j - prev.j >= prev.shift

\* C16: in the periodic branch memory is 0 after an iteration that advanced
\* the window start by more than period, and memory is nonzero only right
\* after a mismatch in the left half, where it is len(substr)-period.
C16_MemoryOnlyAfterLeftMismatch ==
    InPeriodic =>
        /\ j - prev.j > period => memory = 0
        /\ memory # 0 => (prev.kind = "left" /\ memory = Len(substr) - period)

C16_Witness ==
    /\ InPeriodic
    /\ memory # 0
    /\ prev.kind = "left"

\* An iteration advanced the window by more than period.
C16_WitnessLongShift ==
    /\ InPeriodic
    /\ j - prev.j > period
    /\ prev.kind = "shift"

\* C17: when TwoWayLongNeedle takes the periodic branch, period is a period
\* of the whole pattern.
C17_PeriodicBranchPeriod ==
    InPeriodic => IsPeriod(substr, period)

C17_Witness ==
    /\ InPeriodic
    /\ 1 < period /\ period < Len(substr)
    /\ suffix > 0

\* C18: criticalFactorization returns breakpoint = max(a, b), a and b the
\* start indices of the maximal suffixes under the natural and the reversed
\* byte order, with the period computed with the chosen suffix, the one of
\* the reversed order when a = b.
C18_BreakpointIsLargerMaximalSuffix ==
    (op = "TwoWayLongNeedle" /\ pc = "built") =>
        LET a == MaximalSuffixStart(substr, FALSE)
            b == MaximalSuffixStart(substr, TRUE)
        IN  /\ suffix = Max(a, b)
            /\ period = IF b >= a THEN MaxSuffixRev(substr, -1, 1, 0, 1)[2]
                        ELSE MaxSuffix(substr, -1, 1, 0, 1)[2]

\* Both maximal suffixes start inside the pattern, at different indices.
C18_Witness ==
    /\ op = "TwoWayLongNeedle" /\ pc = "built"
    /\ MaximalSuffixStart(substr, FALSE) > 0
    /\ MaximalSuffixStart(substr, TRUE) > 0
    /\ MaximalSuffixStart(substr, FALSE) # MaximalSuffixStart(substr, TRUE)

\* C19: the period returned by criticalFactorization is the smallest period
\* of the suffix of the pattern that starts at the breakpoint.
C19_PeriodOfSuffix ==
    (op = "TwoWayLongNeedle" /\ pc = "built") =>
        period = SmallestPeriodFrom(substr, suffix)

\* The returned period is not the smallest period of the whole pattern.
C19_Witness ==
    /\ op = "TwoWayLongNeedle" /\ pc = "built"
    /\ period > 1
    /\ period # GlobalPeriod(substr)

\* shiftTable[c] is len(substr) for a byte c that does not occur in substr,
\* len(substr)-1-k for a byte whose last occurrence is at k, and 0 exactly
\* for the last byte of substr
ShiftTableAsSpecified ==
    \A c \in 0..255 :
        LET k == LastOccurrence(substr, c)
        IN  /\ shiftTable[c] = IF k = -1 THEN Len(substr)
                               ELSE Len(substr) - 1 - k
            /\ shiftTable[c] = 0 <=> c = substr[Len(substr)]

\* C20: the shift table holds len(substr) for a byte that does not occur in
\* substr and len(substr)-1-k for a byte whose last occurrence is at k; it is
\* 0 exactly for the last byte of substr, and scanning does not change it.
C20_ShiftTable ==
    /\ []((op = "TwoWayLongNeedle" /\ pc = "built") => ShiftTableAsSpecified)
    /\ [][(op = "TwoWayLongNeedle" /\ pc # "start") => shiftTable' = shiftTable]_vars

\* The table of a pattern with a repeated byte, after the scan has moved.
C20_Witness ==
    /\ op = "TwoWayLongNeedle" /\ pc \in {"periodic", "nonperiodic", "done"}
    /\ j > 0
    /\ \E x, y \in 1..Len(substr) : x < y /\ substr[x] = substr[y]
    /\ \E c \in Alphabet : LastOccurrence(substr, c) = -1
    /\ ShiftTableAsSpecified

----------------------------------------------------------------------------
(* The claim about Clean. *)

\* a path element starts at index k (1-based) of p
ElementStart(p, k) == p[k] # Slash /\ (k = 1 \/ p[k - 1] = Slash)

\* the path element of p that starts at index k
ElementAt(p, k) == SubSeq(p, k, ElementEnd(p, k - 1))

\* every element of p before index k is ".."
OnlyDotDotBefore(p, k) ==
    \A m \in 1..(k - 1) : ElementStart(p, m) => ElementAt(p, m) = <<Dot, Dot>>

\* p is in normal form
Normal(p) ==
    /\ p # <<>>
    /\ \A k \in 1..(Len(p) - 1) : ~(p[k] = Slash /\ p[k + 1] = Slash)
    /\ p[Len(p)] = Slash => p = <<Slash>>
    /\ \A k \in 1..Len(p) :
           ElementStart(p, k) =>
               /\ ElementAt(p, k) = <<Dot>> => p = <<Dot>>
               /\ ElementAt(p, k) = <<Dot, Dot>> =>
                      (p[1] # Slash /\ OnlyDotDotBefore(p, k))

\* C11: for every input path, the result of Clean (both implementations) is
\* in normal form: non-empty, no empty element, no "." element unless the
\* result is ".", ".." elements only leading a non-rooted result, and a
\* trailing slash only in "/".
C11_CleanResultNormal ==
    (op \in CleanOps /\ pc = "done") => Normal(cleaned)

\* The lazybuf version returns a normal form, and so does the cleanIndex
\* version for a path that holds no "/./".
CleanNormalUnlessSlashDotSlash ==
    (op \in CleanOps /\ pc = "done") =>
        \/ Normal(cleaned)
        \/ /\ op = "Clean"
           /\ \E k \in 1..(Len(path) - 2) :
                  path[k] = Slash /\ path[k + 1] = Dot /\ path[k + 2] = Slash

----------------------------------------------------------------------------
(* The claims about the rolling hash, termination, the loop invariants of
   TwoWayLongNeedle and the violated preconditions. *)

\* C21: during IndexRabinKarp and LastIndexRabinKarp, after every slide step
\* the rolling value h equals (mod 2^32) the hash computed from scratch over
\* the current window: the forward hash of s[i-n:i] in IndexRabinKarp, the
\* reverse hash of the window just hashed in LastIndexRabinKarp.
C21_RollingHashIsWindowHash ==
    LET n == Len(substr)
    IN  /\ (op = "IndexRabinKarp" /\ pc = "scan") =>
               h = HashStr(Slice(s, i - n, i))[1]
        /\ (op = "IndexRabinKarp" /\ pc = "done" /\ result >= 0) =>
               h = HashStr(Slice(s, result, result + n))[1]
        /\ (op = "LastIndexRabinKarp" /\ pc = "scan") =>
               h = HashStrRev(Slice(s, i + 1, i + 1 + n))[1]
        /\ (op = "LastIndexRabinKarp" /\ pc = "done" /\ result >= 0) =>
               h = HashStrRev(Slice(s, result, result + n))[1]

\* IndexRabinKarp has slid twice over a pattern whose hash wraps around.
C21_Witness ==
    /\ op = "IndexRabinKarp" /\ pc = "scan"
    /\ Len(substr) >= 3
    /\ i >= Len(substr) + 2
    /\ h[1] # 0

\* LastIndexRabinKarp has slid twice.
C21_WitnessReverse ==
    /\ op = "LastIndexRabinKarp" /\ pc = "scan"
    /\ Len(substr) >= 3
    /\ i + 1 <= Len(s) - Len(substr) - 2

\* C22: every iteration of either scan loop of TwoWayLongNeedle returns or
\* increases the window start j by at least 1, so there are at most
\* len(s)-len(substr)+1 iterations, and not found is reported once
\* j > len(s)-len(substr).
C22_EveryIterationAdvances ==
    op = "TwoWayLongNeedle" =>
        /\ prev.kind # "panic"
        /\ prev.kind \in {"shift", "left", "right"} => j >= prev.j + 1
        /\ prev.kind = "match" => (pc = "done" /\ result = prev.j)
        /\ prev.count <= Max(0, Len(s) - Len(substr) + 1)
        /\ (pc = "done" /\ result = -1) => j > Len(s) - Len(substr)

\* A search that took all len(s)-len(substr)+1 iterations and found nothing.
C22_Witness ==
    /\ op = "TwoWayLongNeedle" /\ pc = "done" /\ result = -1
    /\ prev.count >= 3
    /\ prev.count = Len(s) - Len(substr) + 1

\* C23: at the head of every iteration of either scan loop, with window start
\* j, no occurrence of substr starts at an index below j.
C23_NoSkippedMatch ==
    (op = "TwoWayLongNeedle" /\ pc \in {"periodic", "nonperiodic", "done"}) =>
        \A k \in 0..(j - 1) : ~Occurs(s, substr, k)

\* A step skipped at least one position and an occurrence lies ahead.
C23_Witness ==
    /\ op = "TwoWayLongNeedle" /\ pc \in {"periodic", "nonperiodic"}
    /\ prev.kind \in {"shift", "left", "right"}
    /\ j - prev.j >= 2
    /\ \E k \in j..Len(s) : Occurs(s, substr, k)

\* C24: in the periodic branch, at the head of every iteration with
\* j <= len(s)-len(substr) and memory m, s[j:j+m] == substr[0:m]; a window
\* returned after a scan that skipped the indices below m equals substr.
C24_MemoryPrefixMatches ==
    /\ (InPeriodic /\ j <= Len(s) - Len(substr)) =>
           Slice(s, j, j + memory) = Slice(substr, 0, memory)
    /\ (op = "TwoWayLongNeedle" /\ prev.kind = "match" /\ prev.memory # 0) =>
           Occurs(s, substr, result)

\* A window verified with a nonzero memory was returned.
C24_Witness ==
    /\ op = "TwoWayLongNeedle" /\ pc = "done"
    /\ prev.kind = "match" /\ prev.memory # 0
    /\ result = prev.j

\* The head of an iteration with a nonzero memory and a window in range.
C24_WitnessLoopHead ==
    /\ InPeriodic
    /\ memory >= 2
    /\ j <= Len(s) - Len(substr)

\* C25: for every non-empty pattern criticalFactorization returns
\* breakpoint <= len(x)-1 and breakpoint + period <= len(x), so the slice
\* substr[period:period+breakpoint] of the periodicity check is in bounds.
C25_FactorizationFitsPeriodicityCheck ==
    (op = "TwoWayLongNeedle" /\ pc = "built") =>
        /\ suffix <= Len(substr) - 1
        /\ suffix + period <= Len(substr)
        /\ SliceInRange(substr, period, period + suffix)

\* The slice of the periodicity check ends exactly at the pattern's end.
C25_Witness ==
    /\ op = "TwoWayLongNeedle" /\ pc = "built"
    /\ suffix >= 1 /\ period >= 2
    /\ suffix + period = Len(substr)

\* C26: with a non-empty pattern longer than the haystack TwoWayLongNeedle
\* reads no haystack byte, makes no out-of-range access and returns -1.
C26_LongPatternNotFound ==
    (op = "TwoWayLongNeedle" /\ Len(substr) > Len(s)) =>
        /\ reads = 0
        /\ prev = NoStep
        /\ pc # "panic"
        /\ pc = "done" => result = -1

C26_Witness ==
    /\ op = "TwoWayLongNeedle" /\ pc = "done"
    /\ Len(substr) > Len(s) /\ Len(s) >= 1
    /\ result = -1

C27_WitnessReverse ==
    /\ op = "LastIndexRabinKarp" /\ pc = "panic"
    /\ Len(substr) > Len(s) /\ Len(s) >= 1

\* C29: in the periodic branch every shift-table entry of a byte that occurs
\* in the pattern is below period, so a nonzero shift-table value that is at
\* least period equals len(substr).
C29_PatternShiftsBelowPeriod ==
    InPeriodic =>
        /\ \A k \in 1..Len(substr) : shiftTable[substr[k]] < period
        /\ prev = NoStep =>
               \A c \in 0..255 :
                   (0 < shiftTable[c] /\ shiftTable[c] >= period) =>
                       shiftTable[c] = Len(substr)

\* A nonzero shift below period was read for a byte of a periodic pattern.
C29_Witness ==
    /\ InPeriodic
    /\ period >= 2
    /\ prev.kind = "shift"
    /\ 0 < prev.shift /\ prev.shift < period
    /\ shiftTable[0] = Len(substr)

----------------------------------------------------------------------------
(* The claim about the two implementations of Clean. *)

\* the value an implementation returns is the value of its function
CleanReturnsItsFunction ==
    /\ (op = "Clean" /\ pc = "done") => cleaned = CleanOf(path)
    /\ (op = "LazyClean" /\ pc = "done") => cleaned = LazyCleanOf(path)

\* C28: the cleanIndex version and the lazybuf version of Clean return the
\* same result for every path.
C28_CleanVersionsAgree ==
    (op \in CleanOps /\ pc = "done") =>
        (cleaned = CleanOf(path) /\ cleaned = LazyCleanOf(path))

\* The two versions differ only for a path that ends, once its trailing
\* slashes are removed, in a "." element after a slash.
CleanVersionsAgreeUnlessTrailingDot ==
    (op \in CleanOps /\ pc = "done") =>
        \/ CleanOf(path) = LazyCleanOf(path)
        \/ LET p == trimTrailingSlashes(path)
           IN  Len(p) >= 2 /\ p[Len(p)] = Dot /\ p[Len(p) - 1] = Slash

====
